---- MODULE Spec2Model ----
(***************************************************************************)
(* Model of infrastructure/lib/lambda/log-forwarder/handler.py: the        *)
(* CloudWatch -> Grafana Cloud Loki log forwarder.                          *)
(*                                                                         *)
(* Text is modelled character by character: a Python str is a sequence of  *)
(* one-character strings, so that strip(), lower(), the substring tests,   *)
(* the two regular expressions and json.loads are computed, not assumed.   *)
(***************************************************************************)
EXTENDS Integers, Sequences, FiniteSets, TLC

\* ------------------------------------------------------------------ text

Upper == <<"A","B","C","D","E","F","G","H","I","J","K","L","M","N","O","P","Q","R","S","T","U","V","W","X","Y","Z">>
LowerAlpha == <<"a","b","c","d","e","f","g","h","i","j","k","l","m","n","o","p","q","r","s","t","u","v","w","x","y","z">>
Digits == {"0","1","2","3","4","5","6","7","8","9"}

\* Character classes, by name: "space" is \s of the re module and what
\* str.strip() removes (ASCII part), "digit" is \d, "notrbracket" is [^\]],
\* "tok" is [^\s-], "jsonws" is the whitespace json skips between tokens,
\* "jsonstr" is what a JSON string may hold unescaped (strict mode rejects
\* control characters; escape sequences are outside the inputs modelled).
InClass(cls, c) ==
    CASE cls = "space" -> c \in {" ", "\t", "\n", "\r", "\f"}
      [] cls = "digit" -> c \in Digits
      [] cls = "notrbracket" -> c # "]"
      [] cls = "tok" -> c \notin {" ", "\t", "\n", "\r", "\f", "-"}
      [] cls = "jsonws" -> c \in {" ", "\t", "\n", "\r"}
      [] cls = "jsonstr" -> c \notin {"\"", "\\", "\t", "\n", "\r", "\f"}

IsSpace(c) == InClass("space", c)
IsDigit(c) == InClass("digit", c)

\* str.lower(), one character.
LowerChar(c) ==
    IF \E i \in 1..Len(Upper) : Upper[i] = c
    THEN LowerAlpha[CHOOSE i \in 1..Len(Upper) : Upper[i] = c]
    ELSE c

\* str.lower()
Lower(s) == [i \in 1..Len(s) |-> LowerChar(s[i])]

\* s[i:].startswith(p), i counted from 1.
HasAt(s, i, p) ==
    /\ i >= 1
    /\ i + Len(p) - 1 <= Len(s)
    /\ \A k \in 1..Len(p) : s[i + k - 1] = p[k]

\* p in s
Contains(s, p) == \E i \in 1..(Len(s) + 1) : HasAt(s, i, p)

\* The index after the longest run of characters of class cls that starts at i
\* (i itself when s[i] is not of the class or i is past the end): a greedy
\* character-class repetition.
RunEnd(s, i, cls) ==
    CHOOSE j \in i..(Len(s) + 1) :
        /\ \A k \in i..(j - 1) : InClass(cls, s[k])
        /\ (j = Len(s) + 1 \/ ~InClass(cls, s[j]))

\* str.strip()
Strip(s) ==
    LET a == RunEnd(s, 1, "space")
        b == IF a > Len(s) THEN a - 1
             ELSE CHOOSE j \in a..Len(s) :
                    ~IsSpace(s[j]) /\ \A k \in (j + 1)..Len(s) : IsSpace(s[k])
    IN  SubSeq(s, a, b)

\* str.startswith / str.endswith of one character
StartsWith(s, c) == Len(s) >= 1 /\ s[1] = c
EndsWith(s, c) == Len(s) >= 1 /\ s[Len(s)] = c

\* str(n) for an integer n >= 0: its decimal digits.
DigitChar(d) == <<"0","1","2","3","4","5","6","7","8","9">>[d + 1]
RECURSIVE IntToStr(_)
IntToStr(n) == IF n < 10 THEN <<DigitChar(n)>> ELSE IntToStr(n \div 10) \o <<DigitChar(n % 10)>>

\* ------------------------------------------------- the fixed text of the code

S_job == <<"j","o","b">>
S_hyphen == <<"-">>
S_StartJob == <<"S","t","a","r","t"," ","j","o","b">>
S_SuccessfulJob == <<"S","u","c","c","e","s","s","f","u","l"," ","j","o","b">>
S_ErrorJob == <<"E","r","r","o","r"," ","j","o","b">>
S_SkipJob == <<"S","k","i","p"," ","j","o","b">>
S_error == <<"e","r","r","o","r">>
S_failed == <<"f","a","i","l","e","d">>
S_warn == <<"w","a","r","n">>
S_info == <<"i","n","f","o">>
S_start == <<"s","t","a","r","t">>
S_complete == <<"c","o","m","p","l","e","t","e">>
S_skip == <<"s","k","i","p">>
S_true == <<"t","r","u","e">>
S_false == <<"f","a","l","s","e">>
S_null == <<"n","u","l","l">>
S_PyTrue == <<"T","r","u","e">>
S_service == <<"b","a","l","a","n","c","e","r","-","v","3","-","b","a","c","k","e","n","d">>
S_source == <<"a","w","s","-","c","l","o","u","d","w","a","t","c","h">>

\* --------------------------------------------------------------- regexes

\* r'\[(\d{4}-\d{2}-\d{2}T[^\]]+)\]\s*\[([^\]]+)\]' matched at position i:
\* <<TRUE, group(2)>> or <<FALSE, <<>>>>.
TimestampMatchAt(s, i) ==
    IF ~( /\ i + 11 <= Len(s)
          /\ s[i] = "["
          /\ \A k \in 1..4 : IsDigit(s[i + k])
          /\ s[i + 5] = "-"
          /\ IsDigit(s[i + 6]) /\ IsDigit(s[i + 7])
          /\ s[i + 8] = "-"
          /\ IsDigit(s[i + 9]) /\ IsDigit(s[i + 10])
          /\ s[i + 11] = "T" )
    THEN <<FALSE, <<>>>>
    ELSE
      LET e1 == RunEnd(s, i + 12, "notrbracket")  \* s[e1] is the ']' closing group 1
          w  == RunEnd(s, e1 + 1, "space")      \* s[w] must be '['
          e2 == RunEnd(s, w + 1, "notrbracket")   \* s[e2] is the ']' closing group 2
      IN  IF /\ e1 > i + 12 /\ e1 <= Len(s)
             /\ w <= Len(s) /\ s[w] = "["
             /\ e2 > w + 1 /\ e2 <= Len(s)
          THEN <<TRUE, SubSeq(s, w + 1, e2 - 1)>>
          ELSE <<FALSE, <<>>>>

\* re.search of the timestamp pattern: the leftmost match.
TimestampSearch(s) ==
    IF \E i \in 1..Len(s) : TimestampMatchAt(s, i)[1]
    THEN TimestampMatchAt(s,
            CHOOSE i \in 1..Len(s) :
                /\ TimestampMatchAt(s, i)[1]
                /\ \A k \in 1..(i - 1) : ~TimestampMatchAt(s, k)[1])
    ELSE <<FALSE, <<>>>>

JobVerbs == {S_StartJob, S_SuccessfulJob, S_ErrorJob, S_SkipJob}

\* r'(?:Start job|Successful job|Error job|Skip job)\s+([^\s-]+)-([^\s-]+)'
\* matched at position i: <<TRUE, group(1), group(2), the verb phrase matched>>
\* or <<FALSE, ...>>.
JobMatchAt(s, i) ==
    IF ~(\E v \in JobVerbs : HasAt(s, i, v))
    THEN <<FALSE, <<>>, <<>>, <<>>>>
    ELSE
      LET v  == CHOOSE x \in JobVerbs : HasAt(s, i, x)
          j  == i + Len(v)
          ws == RunEnd(s, j, "space")        \* \s+
          t1 == RunEnd(s, ws, "tok")         \* ([^\s-]+), then '-'
          t2 == RunEnd(s, t1 + 1, "tok")     \* ([^\s-]+)
      IN  IF /\ ws > j
             /\ t1 > ws /\ t1 <= Len(s) /\ s[t1] = "-"
             /\ t2 > t1 + 1
          THEN <<TRUE, SubSeq(s, ws, t1 - 1), SubSeq(s, t1 + 1, t2 - 1), v>>
          ELSE <<FALSE, <<>>, <<>>, <<>>>>

\* re.search of the job pattern: the leftmost match.
JobSearch(s) ==
    IF \E i \in 1..Len(s) : JobMatchAt(s, i)[1]
    THEN JobMatchAt(s,
            CHOOSE i \in 1..Len(s) :
                /\ JobMatchAt(s, i)[1]
                /\ \A k \in 1..(i - 1) : ~JobMatchAt(s, k)[1])
    ELSE <<FALSE, <<>>, <<>>, <<>>>>

\* ------------------------------------------------------------ json.loads

\* The whitespace json skips between tokens.
SkipWs(s, i) == RunEnd(s, i, "jsonws")

JsonFail == [ok |-> FALSE, kind |-> "none", text |-> <<>>, next |-> 0]

\* py_scanstring at s[i] = '"'.
ParseString(s, i) ==
    LET e == RunEnd(s, i + 1, "jsonstr")
    IN  IF e <= Len(s) /\ s[e] = "\""
        THEN [ok |-> TRUE, kind |-> "str", text |-> SubSeq(s, i + 1, e - 1), next |-> e + 1]
        ELSE JsonFail

\* NUMBER_RE's integer part, (-?(?:0|[1-9]\d*)), at s[i]. int() of the text
\* drops the sign of -0.
ParseInt(s, i) ==
    LET d == IF i <= Len(s) /\ s[i] = "-" THEN i + 1 ELSE i
        e == IF d <= Len(s) /\ s[d] = "0" THEN d + 1 ELSE RunEnd(s, d, "digit")
    IN  IF e > d
        THEN [ok |-> TRUE, kind |-> "int",
              text |-> IF SubSeq(s, d, e - 1) = <<"0">> THEN <<"0">> ELSE SubSeq(s, i, e - 1),
              next |-> e]
        ELSE JsonFail

\* scan_once at s[i] for the values the inputs hold: a string, an integer,
\* true, false, null. Anything else is reported as a decode error.
ParseValue(s, i) ==
    IF i > Len(s) THEN JsonFail
    ELSE IF s[i] = "\"" THEN ParseString(s, i)
    ELSE IF HasAt(s, i, S_true) THEN [ok |-> TRUE, kind |-> "true", text |-> <<>>, next |-> i + 4]
    ELSE IF HasAt(s, i, S_false) THEN [ok |-> TRUE, kind |-> "false", text |-> <<>>, next |-> i + 5]
    ELSE IF HasAt(s, i, S_null) THEN [ok |-> TRUE, kind |-> "null", text |-> <<>>, next |-> i + 4]
    ELSE ParseInt(s, i)

\* JSONObject's loop over "key": value pairs, s[i] being where a key must
\* start. acc is the sequence of <<key, value>> pairs read so far.
RECURSIVE ParseMembers(_, _, _)
ParseMembers(s, i, acc) ==
    IF i > Len(s) \/ s[i] # "\"" THEN [ok |-> FALSE, obj |-> <<>>, next |-> 0]
    ELSE
      LET key == ParseString(s, i)
          c   == SkipWs(s, key.next)
          val == ParseValue(s, SkipWs(s, c + 1))
          d   == SkipWs(s, val.next)
          got == Append(acc, <<key.text, val>>)
      IN  IF ~key.ok \/ c > Len(s) \/ s[c] # ":" THEN [ok |-> FALSE, obj |-> <<>>, next |-> 0]
          ELSE IF ~val.ok \/ d > Len(s) THEN [ok |-> FALSE, obj |-> <<>>, next |-> 0]
          ELSE IF s[d] = "}" THEN [ok |-> TRUE, obj |-> got, next |-> d + 1]
          ELSE IF s[d] = "," THEN ParseMembers(s, SkipWs(s, d + 1), got)
          ELSE [ok |-> FALSE, obj |-> <<>>, next |-> 0]

\* json.loads(s) for a text that starts with '{': [ok |-> FALSE] stands for
\* json.JSONDecodeError, otherwise obj is the object's pairs in text order.
JsonLoads(s) ==
    LET a == SkipWs(s, 2)
        r == IF a <= Len(s) /\ s[a] = "}"
             THEN [ok |-> TRUE, obj |-> <<>>, next |-> a + 1]
             ELSE ParseMembers(s, a, <<>>)
    IN  IF ~StartsWith(s, "{") THEN [ok |-> FALSE, obj |-> <<>>]
        ELSE IF r.ok /\ SkipWs(s, r.next) = Len(s) + 1
             THEN [ok |-> TRUE, obj |-> r.obj]
             ELSE [ok |-> FALSE, obj |-> <<>>]

\* field in parsed
HasKey(obj, key) == \E k \in 1..Len(obj) : obj[k][1] = key
\* parsed[field]: a repeated key keeps its last value.
GetKey(obj, key) ==
    obj[CHOOSE k \in 1..Len(obj) :
            obj[k][1] = key /\ \A m \in (k + 1)..Len(obj) : obj[m][1] # key][2]

\* bool(value)
Truthy(v) ==
    CASE v.kind = "str" -> v.text # <<>>
      [] v.kind = "int" -> v.text # <<"0">>
      [] v.kind = "true" -> TRUE
      [] OTHER -> FALSE

\* str(value), for a truthy value
PyStr(v) == IF v.kind = "true" THEN S_PyTrue ELSE v.text

\* ------------------------------------------------------------ classification

\* The parsed fields copied into labels, with the text of each name.
JsonFields == {"level", "job", "chain", "phase", "sync_job"}
FieldText(f) ==
    CASE f = "level" -> <<"l","e","v","e","l">>
      [] f = "job" -> <<"j","o","b">>
      [] f = "chain" -> <<"c","h","a","i","n">>
      [] f = "phase" -> <<"p","h","a","s","e">>
      [] f = "sync_job" -> <<"s","y","n","c","_","j","o","b">>
      [] f = "duration" -> <<"d","u","r","a","t","i","o","n">>

\* labels[k] = v
SetLabel(labels, k, v) ==
    [x \in (DOMAIN labels) \cup {k} |-> IF x = k THEN v ELSE labels[x]]

\* The base labels of every record.
BaseLabels(environment, logGroup, logStream) ==
    [service |-> S_service, environment |-> environment, log_group |-> logGroup,
     log_stream |-> logStream, source |-> S_source]

\* The labels of a message that parsed as a JSON object.
JsonLabels(labels, parsed) ==
    LET set == {f \in JsonFields :
                    HasKey(parsed, FieldText(f)) /\ Truthy(GetKey(parsed, FieldText(f)))}
        dur == /\ HasKey(parsed, FieldText("duration"))
               /\ Truthy(GetKey(parsed, FieldText("duration")))
    IN  [x \in (DOMAIN labels) \cup set \cup (IF dur THEN {"has_duration"} ELSE {}) |->
            IF x \in set THEN PyStr(GetKey(parsed, FieldText(x)))
            ELSE IF x = "has_duration" THEN S_true
            ELSE labels[x]]

\* The phase chosen once the job pattern matched: the first verb phrase, in
\* this order, that the message contains anywhere.
PhaseOf(labels, message) ==
    IF Contains(message, S_StartJob) THEN SetLabel(labels, "phase", S_start)
    ELSE IF Contains(message, S_SuccessfulJob) THEN SetLabel(labels, "phase", S_complete)
    ELSE IF Contains(message, S_ErrorJob) THEN SetLabel(labels, "phase", S_failed)
    ELSE IF Contains(message, S_SkipJob) THEN SetLabel(labels, "phase", S_skip)
    ELSE labels

\* The job branch: sync_job, chain and phase from the job pattern.
JobLabels(labels, message) ==
    IF Contains(message, S_job) /\ Contains(message, S_hyphen)
    THEN LET job_match == JobSearch(message)
         IN  IF job_match[1]
             THEN PhaseOf(SetLabel(SetLabel(labels, "sync_job", job_match[2]),
                                   "chain", job_match[3]), message)
             ELSE labels
    ELSE labels

\* The level from the message content, if not already set.
LevelFallback(labels, message) ==
    IF "level" \notin DOMAIN labels
    THEN IF Contains(Lower(message), S_error) \/ Contains(Lower(message), S_failed)
         THEN SetLabel(labels, "level", S_error)
         ELSE IF Contains(Lower(message), S_warn)
              THEN SetLabel(labels, "level", S_warn)
              ELSE SetLabel(labels, "level", S_info)
    ELSE labels

\* A variant that runs the job branch whether or not the bracket pattern matched.
TextLabelsIndependent(labels, message) ==
    LET timestamp_match == TimestampSearch(message)
    IN  IF timestamp_match[1]
        THEN JobLabels(SetLabel(labels, "level", Lower(timestamp_match[2])), message)
        ELSE LevelFallback(JobLabels(labels, message), message)

\* The branch taken for a message that does not look like a JSON object.
TextLabels(labels, message) ==
    LET timestamp_match == TimestampSearch(message)
    IN  IF timestamp_match[1]
        THEN SetLabel(labels, "level", Lower(timestamp_match[2]))
        ELSE LevelFallback(JobLabels(labels, message), message)

\* Whether the stripped message is tried as JSON.
LooksJson(message) == StartsWith(message, "{") /\ EndsWith(message, "}")

\* A variant that tries the other branches when the JSON does not parse.
ClassifyFallsBack(labels, message) ==
    IF LooksJson(message)
    THEN LET r == JsonLoads(message)
         IN  IF r.ok THEN JsonLabels(labels, r.obj) ELSE TextLabels(labels, message)
    ELSE TextLabels(labels, message)

\* The labels the loop body gives one stripped message.
Classify(labels, message) ==
    IF LooksJson(message)
    THEN LET r == JsonLoads(message)
         IN  IF r.ok THEN JsonLabels(labels, r.obj) ELSE labels
    ELSE TextLabels(labels, message)

\* ------------------------------------------------------------------ bounds

\* The longest logEvents list of an invocation.
MaxEvents == 2
\* Invocations start only while get_secret_value was called fewer times.
MaxFetches == 2
\* The number of text fragments a classified message is built from.
MaxFrags == 3

\* ------------------------------------------------------------------ inputs

S_prod == <<"p","r","o","d">>
S_grp == <<"g","r","p">>
S_strm == <<"s","t","r","m">>

\* Fragments of log lines; a message to classify is a concatenation of them.
Frags == {
    <<"{","\"","l","e","v","e","l","\"",":","\"","W","A","R","N","\"">>,
    <<"{","\"","j","o","b","\"",":","\"","x","\"">>,
    <<",","\"","d","u","r","a","t","i","o","n","\"",":","5">>,
    <<",","\"","l","e","v","e","l","\"",":","\"","\"">>,
    <<"}">>,
    <<"{">>,
    <<"[","2","0","2","5","-","0","6","-","1","1","T","0","]"," ","[","E","r","r","o","r","]">>,
    <<"[","E","r","r","o","r","]">>,
    <<"S","t","a","r","t"," ","j","o","b"," ","a","-","b">>,
    <<"E","r","r","o","r"," ","j","o","b"," ","c","-","d">>,
    <<" ">>,
    <<"w","a","r","n">> }

RECURSIVE Concats(_)
Concats(n) ==
    IF n = 0 THEN {<<>>}
    ELSE Concats(n - 1) \cup {m \o f : m \in Concats(n - 1), f \in Frags}

\* The raw messages of the classification specification.
RawMessages == Concats(MaxFrags)

\* The log events of the batches of the handler specification: two lines with
\* equal labels, one that looks like JSON and does not parse, and one record
\* without a message.
BatchEvents == {
    [timestamp |-> 1, wellformed |-> TRUE,
     message |-> <<" ","S","k","i","p"," ","j","o","b"," ","e","-","f"," ">>],
    [timestamp |-> 2, wellformed |-> TRUE,
     message |-> <<"S","k","i","p"," ","j","o","b"," ","e","-","f">>],
    [timestamp |-> 3, wellformed |-> TRUE, message |-> <<"{","w","a","r","n","}">>],
    [timestamp |-> 4, wellformed |-> FALSE, message |-> <<>>] }

RECURSIVE SeqsUpTo(_, _)
SeqsUpTo(S, n) ==
    IF n = 0 THEN {<<>>}
    ELSE SeqsUpTo(S, n - 1) \cup {Append(q, x) : q \in SeqsUpTo(S, n - 1), x \in S}

\* The decoded envelopes: decodable says whether base64, gzip and json.loads
\* of event['awslogs']['data'] succeed and give logGroup and logStream.
Envelopes ==
    {[decodable |-> FALSE, logEvents |-> <<>>]}
    \cup {[decodable |-> TRUE, logEvents |-> q] : q \in SeqsUpTo(BatchEvents, MaxEvents)}

\* What json.loads(response['SecretString']) can give. A field of a dict is
\* missing, empty ('' or another falsy value) or set.
FieldStates == {"missing", "empty", "set"}
NoneValue == [kind |-> "None", user_id |-> "missing", api_key |-> "missing",
              loki_endpoint |-> "missing", other |-> FALSE]
EmptyDict == [NoneValue EXCEPT !.kind = "dict"]
SecretValues == {
    NoneValue,
    EmptyDict,
    [NoneValue EXCEPT !.kind = "list"],
    [EmptyDict EXCEPT !.other = TRUE],
    [EmptyDict EXCEPT !.user_id = "set", !.api_key = "set", !.loki_endpoint = "set"],
    [EmptyDict EXCEPT !.user_id = "set", !.api_key = "set"],
    [EmptyDict EXCEPT !.user_id = "set"],
    [EmptyDict EXCEPT !.user_id = "empty", !.api_key = "set", !.loki_endpoint = "set"] }

\* What secrets_client.get_secret_value followed by json.loads does: raise, or
\* give a value.
StoreResponses ==
    {[raises |-> TRUE, value |-> NoneValue]}
    \cup {[raises |-> FALSE, value |-> v] : v \in SecretValues}

\* What http.request does: raise (transport failure), or give a status.
HttpResponses ==
    {[raises |-> TRUE, status |-> 0]}
    \cup {[raises |-> FALSE, status |-> c] : c \in {200, 399, 400, 503}}

\* os.environ: which variables are set.
Environments ==
    [ENVIRONMENT : BOOLEAN, SECRET_ARN : BOOLEAN, USER_ID_KEY : BOOLEAN,
     API_KEY_KEY : BOOLEAN, LOKI_ENDPOINT_KEY : BOOLEAN]
FullEnvironment ==
    [ENVIRONMENT |-> TRUE, SECRET_ARN |-> TRUE, USER_ID_KEY |-> TRUE,
     API_KEY_KEY |-> TRUE, LOKI_ENDPOINT_KEY |-> TRUE]

\* ------------------------------------------------------------------- state

VARIABLES
    env,             \* os.environ of the process
    cached_secrets,  \* the module global
    fetches,         \* calls of secrets_client.get_secret_value so far
    pc,              \* where the handler is
    event,           \* the decoded envelope of the invocation
    processed,       \* how many log events the loop has gone through
    streams,         \* the local list of the loop
    loki_payload,    \* the payload, once built
    secrets,         \* what get_secrets returned
    fetched,         \* whether get_secrets called get_secret_value in this invocation
    posts,           \* calls of http.request in this invocation
    response,        \* what http.request did
    result,          \* what the handler returned
    raised           \* whether an exception reached the handler's except clause

vars == <<env, cached_secrets, fetches, pc, event, processed, streams, loki_payload, secrets,
          fetched, posts, response, result, raised>>

NoPayload == [built |-> FALSE, streams |-> <<>>]
NoResult == [statusCode |-> 0, body |-> "none"]
NoEnvelope == [decodable |-> FALSE, logEvents |-> <<>>]
NoResponse == [raises |-> FALSE, status |-> 0]

\* bool(value) of a secret value
SecretTruthy(v) ==
    \/ v.kind = "list"
    \/ v.kind = "dict" /\ (v.other \/ v.user_id # "missing" \/ v.api_key # "missing"
                           \/ v.loki_endpoint # "missing")

\* A variant that never reads the cache.
GetSecretsCallNoCache(cached, resp) ==
    IF resp.raises THEN <<EmptyDict, cached, TRUE>>
    ELSE <<resp.value, resp.value, TRUE>>

\* get_secrets: <<the value returned, cached_secrets afterwards, whether
\* get_secret_value was called>>.
GetSecretsCall(cached, resp) ==
    IF SecretTruthy(cached) THEN <<cached, cached, FALSE>>
    ELSE IF resp.raises THEN <<EmptyDict, cached, TRUE>>
    ELSE <<resp.value, resp.value, TRUE>>

\* A variant that appends the pair to the stream that already has these labels.
AppendStreamGrouped(s, labels, timestamp_ns, message) ==
    IF \E k \in 1..Len(s) : s[k].stream = labels
    THEN LET k == CHOOSE x \in 1..Len(s) : s[x].stream = labels
         IN  [s EXCEPT ![k].values = Append(@, <<timestamp_ns, message>>)]
    ELSE Append(s, [stream |-> labels, values |-> <<<<timestamp_ns, message>>>>])

\* A variant that writes the pair twice.
AppendStreamTwice(s, labels, timestamp_ns, message) ==
    Append(s, [stream |-> labels,
               values |-> <<<<timestamp_ns, message>>, <<timestamp_ns, message>>>>])

\* streams.append({'stream': labels, 'values': [[timestamp_ns, message]]})
AppendStream(s, labels, timestamp_ns, message) ==
    Append(s, [stream |-> labels, values |-> <<<<timestamp_ns, message>>>>])

\* A variant of the except clause that reports success.
FailQuietly ==
    /\ result' = [statusCode |-> 200, body |-> "error"]
    /\ raised' = TRUE
    /\ pc' = "done"

\* The handler's except clause.
Fail ==
    /\ result' = [statusCode |-> 500, body |-> "error"]
    /\ raised' = TRUE
    /\ pc' = "done"

\* The handler is called: the envelope is decoded, and an empty logEvents
\* ends the invocation.
Invoke(ev) ==
    /\ pc \in {"idle", "done"}
    /\ fetches < MaxFetches
    /\ event' = ev
    /\ processed' = 0
    /\ streams' = <<>>
    /\ loki_payload' = NoPayload
    /\ secrets' = NoneValue
    /\ fetched' = FALSE
    /\ posts' = 0
    /\ response' = NoResponse
    /\ IF ~ev.decodable
       THEN Fail
       ELSE IF ev.logEvents = <<>>
            THEN /\ result' = [statusCode |-> 200, body |-> "no log events"]
                 /\ raised' = FALSE
                 /\ pc' = "done"
            ELSE /\ result' = NoResult
                 /\ raised' = FALSE
                 /\ pc' = "classify"
    /\ UNCHANGED <<env, cached_secrets, fetches>>

\* One pass of the loop over logEvents; after the last one the payload is
\* built.
ClassifyEvent ==
    /\ pc = "classify"
    /\ LET log_event == event.logEvents[processed + 1]
           message == Strip(log_event.message)
           labels == Classify(BaseLabels(S_prod, S_grp, S_strm), message)
           next == AppendStream(streams, labels,
                                IntToStr(log_event.timestamp * 1000000), message)
       IN  IF ~env.ENVIRONMENT \/ ~log_event.wellformed
           THEN Fail /\ UNCHANGED <<processed, streams, loki_payload>>
           ELSE /\ streams' = next
                /\ processed' = processed + 1
                /\ IF processed + 1 >= Len(event.logEvents)
                   THEN /\ loki_payload' = [built |-> TRUE, streams |-> next]
                        /\ pc' = "config"
                   ELSE UNCHANGED <<loki_payload, pc>>
                /\ UNCHANGED <<result, raised>>
    /\ UNCHANGED <<env, cached_secrets, fetches, event, secrets, fetched, posts, response>>

\* SECRET_ARN is read; unset, the invocation ends with 500.
ReadSecretArn ==
    /\ pc = "config"
    /\ IF ~env.SECRET_ARN
       THEN /\ result' = [statusCode |-> 500, body |-> "SECRET_ARN not configured"]
            /\ pc' = "done"
       ELSE /\ pc' = "secrets"
            /\ UNCHANGED result
    /\ UNCHANGED <<env, cached_secrets, fetches, event, processed, streams, loki_payload,
                   secrets, fetched, posts, response, raised>>

\* secrets = get_secrets(secret_arn)
GetSecrets(resp) ==
    /\ pc = "secrets"
    /\ LET r == GetSecretsCall(cached_secrets, resp)
       IN  /\ secrets' = r[1]
           /\ cached_secrets' = r[2]
           /\ fetched' = r[3]
           /\ fetches' = IF r[3] THEN fetches + 1 ELSE fetches
    /\ pc' = "credentials"
    /\ UNCHANGED <<env, event, processed, streams, loki_payload, posts, response, result,
                   raised>>

\* secrets.get(key) if key else None: "raise" when secrets has no get.
Resolve(keySet, value, field) ==
    IF ~keySet THEN "missing"
    ELSE IF value.kind # "dict" THEN "raise"
    ELSE value[field]

\* A variant that skips the push only when both are absent.
CredentialsPresentEither(user_id, api_key) == user_id = "set" \/ api_key = "set"

\* The negation of "not user_id or not api_key".
CredentialsPresent(user_id, api_key) == user_id = "set" /\ api_key = "set"

\* user_id and api_key are resolved; without both the push is skipped.
ResolveCredentials ==
    /\ pc = "credentials"
    /\ LET user_id == Resolve(env.USER_ID_KEY, secrets, "user_id")
           api_key == Resolve(env.API_KEY_KEY, secrets, "api_key")
           loki_endpoint == Resolve(env.LOKI_ENDPOINT_KEY, secrets, "loki_endpoint")
       IN  IF "raise" \in {user_id, api_key, loki_endpoint}
           THEN Fail
           ELSE IF ~CredentialsPresent(user_id, api_key)
                THEN /\ result' = [statusCode |-> 200, body |-> "credentials not configured"]
                     /\ pc' = "done"
                     /\ UNCHANGED raised
                ELSE /\ pc' = "post"
                     /\ UNCHANGED <<result, raised>>
    /\ UNCHANGED <<env, cached_secrets, fetches, event, processed, streams, loki_payload,
                   secrets, fetched, posts, response>>

\* A variant with the comparison off by one.
ResponseResultAbove400(status) ==
    IF status > 400
    THEN [statusCode |-> 500, body |-> "Grafana Cloud returned status"]
    ELSE [statusCode |-> 200, body |-> "forwarded"]

\* The result for the response of the POST.
ResponseResult(status) ==
    IF status >= 400
    THEN [statusCode |-> 500, body |-> "Grafana Cloud returned status"]
    ELSE [statusCode |-> 200, body |-> "forwarded"]

\* The single http.request('POST', ...) and the result it leads to.
Post(resp) ==
    /\ pc = "post"
    /\ posts' = posts + 1
    /\ response' = resp
    /\ IF resp.raises
       THEN Fail
       ELSE /\ result' = ResponseResult(resp.status)
            /\ pc' = "done"
            /\ UNCHANGED raised
    /\ UNCHANGED <<env, cached_secrets, fetches, event, processed, streams, loki_payload,
                   secrets, fetched>>

InitProcess ==
    /\ cached_secrets = NoneValue
    /\ fetches = 0
    /\ pc = "idle"
    /\ event = NoEnvelope
    /\ processed = 0
    /\ streams = <<>>
    /\ loki_payload = NoPayload
    /\ secrets = NoneValue
    /\ fetched = FALSE
    /\ posts = 0
    /\ response = NoResponse
    /\ result = NoResult
    /\ raised = FALSE

Init == env \in Environments /\ InitProcess

Next ==
    \/ \E ev \in Envelopes : Invoke(ev)
    \/ ClassifyEvent
    \/ ReadSecretArn
    \/ \E resp \in StoreResponses : GetSecrets(resp)
    \/ ResolveCredentials
    \/ \E resp \in HttpResponses : Post(resp)

Spec == Init /\ [][Next]_vars

\* The classification specification: the handler at its loop, with a batch of
\* one log event whose message is any of RawMessages.
InitClassify ==
    /\ env = FullEnvironment
    /\ cached_secrets = NoneValue
    /\ fetches = 0
    /\ pc = "classify"
    /\ event \in {[decodable |-> TRUE,
                   logEvents |-> <<[timestamp |-> 1, wellformed |-> TRUE, message |-> m]>>] :
                  m \in RawMessages}
    /\ processed = 0
    /\ streams = <<>>
    /\ loki_payload = NoPayload
    /\ secrets = NoneValue
    /\ fetched = FALSE
    /\ posts = 0
    /\ response = NoResponse
    /\ result = NoResult
    /\ raised = FALSE

NextClassify == ClassifyEvent

SpecClassify == InitClassify /\ [][NextClassify]_vars

\* ------------------------------------------------------------------ claims

\* What the claims say about one log event of the batch.
EventPair(e) == <<IntToStr(e.timestamp * 1000000), Strip(e.message)>>
EventLabels(e) == Classify(BaseLabels(S_prod, S_grp, S_strm), Strip(e.message))

RECURSIVE AllValues(_)
AllValues(st) == IF st = <<>> THEN <<>> ELSE st[1].values \o AllValues(Tail(st))

Count(q, x) == Cardinality({k \in 1..Len(q) : q[k] = x})

\* C1, as claimed: in the payload no two streams carry equal label maps, and
\* every event's pair is among the values of the one stream with its labels.
C1_OneStreamPerLabelSet ==
    loki_payload.built =>
        LET st == loki_payload.streams
        IN  /\ \A i, j \in 1..Len(st) : i # j => st[i].stream # st[j].stream
            /\ \A k \in 1..Len(event.logEvents) :
                 \E i \in 1..Len(st) :
                    /\ st[i].stream = EventLabels(event.logEvents[k])
                    /\ Count(st[i].values, EventPair(event.logEvents[k])) >= 1

\* C1, amended: the payload has one stream per log event, in input order;
\* stream k carries the labels of event k and only that event's pair, so an
\* event whose labels were seen before opens a further stream with equal labels.
C1_OneStreamPerEvent ==
    loki_payload.built =>
        LET st == loki_payload.streams
        IN  /\ Len(st) = Len(event.logEvents)
            /\ \A k \in 1..Len(st) :
                 /\ st[k].stream = EventLabels(event.logEvents[k])
                 /\ st[k].values = <<EventPair(event.logEvents[k])>>

\* A payload in which two streams carry equal label maps.
C1_Witness ==
    /\ loki_payload.built
    /\ \E i, j \in 1..Len(loki_payload.streams) :
         i # j /\ loki_payload.streams[i].stream = loki_payload.streams[j].stream

\* C2: for a non-empty batch classified without an exception, the payload has
\* at most as many streams as events, the lengths of the streams' values sum
\* to the number of events, and every event's pair occurs in the values as
\* often as in the batch.
C2_NoRecordDroppedOrDuplicated ==
    loki_payload.built =>
        LET st == loki_payload.streams
            vals == AllValues(st)
            pairs == [k \in 1..Len(event.logEvents) |-> EventPair(event.logEvents[k])]
        IN  /\ Len(st) <= Len(event.logEvents)
            /\ Len(vals) = Len(event.logEvents)
            /\ \A k \in 1..Len(pairs) : Count(vals, pairs[k]) = Count(pairs, pairs[k])

\* A payload built from a batch of several events.
C2_Witness ==
    /\ loki_payload.built
    /\ Len(event.logEvents) >= 2
    /\ Len(AllValues(loki_payload.streams)) = Len(event.logEvents)

\* C3, as claimed: get_secret_value is called at most once in the process.
C3_FetchedAtMostOnce == fetches <= 1

\* C3, amended: get_secret_value is called only by get_secrets, and a call of
\* get_secrets fetches exactly when cached_secrets is falsy (unset, or left so
\* by a fetch that raised or gave an empty map or null): once a fetch has given
\* a truthy value, every later call returns it and fetches nothing.
C3_NoFetchOnceCached ==
    [][ /\ fetches' # fetches => pc = "secrets"
        /\ pc = "secrets" =>
             IF SecretTruthy(cached_secrets)
             THEN /\ fetches' = fetches
                  /\ cached_secrets' = cached_secrets
                  /\ secrets' = cached_secrets
             ELSE fetches' = fetches + 1 ]_vars

\* An invocation whose get_secrets call was a cache hit, after one fetch.
C3_Witness ==
    /\ pc = "credentials"
    /\ ~fetched
    /\ fetches = 1
    /\ SecretTruthy(cached_secrets)
    /\ secrets = cached_secrets

\* user_id (api_key) is absent from what was resolved: None, or falsy.
Absent(keySet, field) == ~keySet \/ secrets.kind # "dict" \/ secrets[field] # "set"
NoPush ==
    \/ event.logEvents = <<>>
    \/ ~env.SECRET_ARN
    \/ Absent(env.USER_ID_KEY, "user_id")
    \/ Absent(env.API_KEY_KEY, "api_key")

\* C4: an invocation makes no POST when logEvents is empty, SECRET_ARN is
\* unset or user_id or api_key is absent; otherwise, when decoding and
\* classification raised nothing, exactly one, whatever the status returned.
C4_PostCount ==
    pc = "done" =>
        /\ NoPush => posts = 0
        /\ (~NoPush /\ loki_payload.built) => posts = 1
        /\ posts <= 1

\* An invocation that ended after one POST that was answered with 503.
C4_Witness ==
    /\ pc = "done"
    /\ ~NoPush
    /\ posts = 1
    /\ response = [raises |-> FALSE, status |-> 503]

\* C5: with non-empty logEvents, SECRET_ARN set and no exception, statusCode
\* is 200 when user_id or api_key is absent, otherwise 200 for a response
\* status below 400 and 500 for 400 or above.
C5_StatusCode ==
    (pc = "done" /\ loki_payload.built /\ env.SECRET_ARN /\ ~raised) =>
        result.statusCode =
            IF Absent(env.USER_ID_KEY, "user_id") \/ Absent(env.API_KEY_KEY, "api_key")
            THEN 200
            ELSE IF response.status < 400 THEN 200 ELSE 500

\* An invocation whose secret fetch raised, so that get_secrets returned the
\* empty map, and that ended with 200.
C5_Witness ==
    /\ pc = "done"
    /\ loki_payload.built /\ env.SECRET_ARN /\ ~raised
    /\ fetched /\ secrets = EmptyDict /\ cached_secrets = NoneValue
    /\ result.statusCode = 200

\* The inputs on which some step of the invocation raises.
ExceptionCase ==
    \/ ~event.decodable
    \/ /\ event.logEvents # <<>>
       /\ (~env.ENVIRONMENT
           \/ \E k \in 1..Len(event.logEvents) : ~event.logEvents[k].wellformed)
    \/ /\ loki_payload.built /\ env.SECRET_ARN
       /\ secrets.kind # "dict"
       /\ (env.USER_ID_KEY \/ env.API_KEY_KEY \/ env.LOKI_ENDPOINT_KEY)
    \/ response.raises

\* C6: the handler always ends by returning statusCode 200 or 500, and an
\* exception raised while decoding, classifying, resolving credentials or
\* posting ends the invocation with 500.
C6_ExceptionsGive500 ==
    /\ pc \in {"idle", "classify", "config", "secrets", "credentials", "post", "done"}
    /\ pc = "done" =>
         /\ result.statusCode \in {200, 500}
         /\ ExceptionCase => (raised /\ result.statusCode = 500)
         /\ raised => result.statusCode = 500

\* An invocation whose POST raised and that returned 500.
C6_Witness ==
    /\ pc = "done"
    /\ response.raises
    /\ raised
    /\ result.statusCode = 500

\* The level the fallback gives a message.
FallbackLevel(message) ==
    IF Contains(Lower(message), S_error) \/ Contains(Lower(message), S_failed) THEN S_error
    ELSE IF Contains(Lower(message), S_warn) THEN S_warn
    ELSE S_info

\* Whether the JSON branch or the bracket branch set level.
LevelSetByBranch(message) ==
    IF LooksJson(message)
    THEN /\ JsonLoads(message).ok
         /\ HasKey(JsonLoads(message).obj, FieldText("level"))
         /\ Truthy(GetKey(JsonLoads(message).obj, FieldText("level")))
    ELSE TimestampSearch(message)[1]

\* C7, as claimed: every record carries a level label, and when neither the
\* JSON branch nor the bracket branch set it, it is the fallback's level.
C7_EveryRecordHasLevel ==
    \A k \in 1..Len(streams) :
        LET message == streams[k].values[1][2]
            labels == streams[k].stream
        IN  /\ "level" \in DOMAIN labels
            /\ ~LevelSetByBranch(message) => labels.level = FallbackLevel(message)

\* C8: a message that looks like JSON and does not parse gets none of sync_job,
\* chain, phase, job, has_duration, and no level taken from a bracket pattern.
C8_NoFallbackOnParseFailure ==
    \A k \in 1..Len(streams) :
        LET message == streams[k].values[1][2]
            labels == streams[k].stream
        IN  (LooksJson(message) /\ ~JsonLoads(message).ok) =>
                /\ (DOMAIN labels) \cap {"sync_job", "chain", "phase", "job", "has_duration"} = {}
                /\ ~( /\ TimestampSearch(message)[1]
                      /\ "level" \in DOMAIN labels
                      /\ labels.level = Lower(TimestampSearch(message)[2]) )

\* A classified message that looks like JSON, does not parse and holds a
\* bracket pattern.
C8_Witness ==
    \E k \in 1..Len(streams) :
        /\ LooksJson(streams[k].values[1][2])
        /\ ~JsonLoads(streams[k].values[1][2]).ok
        /\ TimestampSearch(streams[k].values[1][2])[1]

\* The messages the job pattern applies to.
JobPatternMessage(message) ==
    /\ ~LooksJson(message)
    /\ Contains(message, S_job) /\ Contains(message, S_hyphen)
    /\ JobSearch(message)[1]

JobLabelNames == {"sync_job", "chain", "phase"}

\* C9, as claimed: every message that does not look like JSON and matches the
\* job pattern gets sync_job, chain and phase, bracket pattern or not.
C9_JobBranchIndependent ==
    \A k \in 1..Len(streams) :
        JobPatternMessage(streams[k].values[1][2]) =>
            JobLabelNames \subseteq DOMAIN streams[k].stream

\* C9, amended: such a message gets sync_job (first token), chain (second
\* token) and phase when it does not match the bracket pattern; when it does,
\* the job pattern is not tried and it gets none of the three.
C9_JobBranchOnlyWithoutBracket ==
    \A k \in 1..Len(streams) :
        LET message == streams[k].values[1][2]
            labels == streams[k].stream
        IN  JobPatternMessage(message) =>
                IF TimestampSearch(message)[1]
                THEN JobLabelNames \cap DOMAIN labels = {}
                ELSE /\ JobLabelNames \subseteq DOMAIN labels
                     /\ labels.sync_job = JobSearch(message)[2]
                     /\ labels.chain = JobSearch(message)[3]

\* A classified message that matches both the bracket and the job pattern.
C9_Witness ==
    \E k \in 1..Len(streams) :
        /\ JobPatternMessage(streams[k].values[1][2])
        /\ TimestampSearch(streams[k].values[1][2])[1]

\* The fixed mapping of verb phrases to phases.
PhaseImage(verb) ==
    CASE verb = S_StartJob -> S_start
      [] verb = S_SuccessfulJob -> S_complete
      [] verb = S_ErrorJob -> S_failed
      [] verb = S_SkipJob -> S_skip

\* C10, as claimed: when the job pattern matched, phase is the image of the
\* verb phrase the match captured.
C10_PhaseOfMatchedVerb ==
    \A k \in 1..Len(streams) :
        LET message == streams[k].values[1][2]
            labels == streams[k].stream
        IN  (JobPatternMessage(message) /\ ~TimestampSearch(message)[1]) =>
                /\ "phase" \in DOMAIN labels
                /\ labels.phase = PhaseImage(JobSearch(message)[4])

====
